---------------------------- MODULE Spec2Model ----------------------------
(***************************************************************************)
(* A model of the finance-news skill: the freshness cache and the          *)
(* "all news" fetch of scripts/fetch_news.py, the deadline helpers of      *)
(* scripts/utils.py, the briefing driver of scripts/briefing.py and the    *)
(* Quality Compounder Score of scripts/score.py.                           *)
(*                                                                         *)
(* The parts share no state, so each has its own specification (SpecCache, *)
(* SpecDeadline, SpecBriefing, SpecScore, SpecCalc, SpecMain) over its own *)
(* variables; the variables of the other parts stay at their initial       *)
(* values.                                                                 *)
(***************************************************************************)
EXTENDS Integers, Sequences, FiniteSets, TLC

VARIABLES
    \* ---- fetch_news.py: cache directory and one fetch_all_news run ----
    wallNow,      \* datetime.now(), in minutes
    cache,        \* CACHE_DIR: cache key -> file (mtime, JSON text) or no file
    pc,           \* position of fetch_all_news: "idle" | "fetching"
    cache_key,    \* the key the running fetch_all_news derived at its start
    news,         \* the news dict the running fetch_all_news is filling
    feedIdx,      \* the feed the running fetch_all_news fetches next
    feedErrs,     \* history: number of feeds of this run fetch_rss failed on
    lastGet,      \* history: this invocation's get_cached_news call and result
    putLog,       \* history: per key, the last save_cache call (time, payload)
    printed,      \* what this invocation of fetch_all_news printed, and why
    \* ---- utils.py: one invocation's deadline and its clamp_timeout calls ----
    monoNow,      \* time.monotonic(), in ticks of 1/TicksPerSecond second
    dlpc,         \* "start" before compute_deadline, "running" after
    deadline,     \* the Deadline: None (unbounded) or Some(absolute ticks)
    clampLog,     \* history: the last clamp_timeout call and its outcome
    \* ---- briefing.py: one invocation of generate_and_send ----
    brpc,         \* "start" | "generating" | "sending" | "returned" | "exit1" | "raised"
    args,         \* the parsed command line
    brStart,      \* monotonic time at which the invocation started
    lastCall,     \* history: the last blocking call started (kind, time, timeout)
    stdout,       \* what generate_and_send printed to standard output
    sent,         \* history: messages handed to the messaging channel, in order
    retval,       \* what generate_and_send returned
    lastEnd,      \* history: how the last blocking call ended (kind, ok, timedout)
    \* ---- score.py: one analyze_ticker call, and calculate_score alone ----
    scpc,         \* "fetch" before analyze_ticker ran, "done" after
    snapshot,     \* what the data provider answered for the symbol
    result,       \* the dict analyze_ticker returned
    locals,       \* history: the full-precision values behind a report
    calcIn,       \* arguments of calculate_score: two values, floor, ceiling, weight
    calcOut,      \* the scores calculate_score returned for the two values
    \* ---- score.py: one run of main over a batch of symbols ----
    mpc,          \* "start" | "loop" | "exit0" | "exit1"
    tickers,      \* sys.argv[1:]
    answers,      \* history: what the provider answered for each symbol so far
    mainOut       \* the outcomes main printed so far, in order

cacheVars == <<wallNow, cache, pc, cache_key, news, feedIdx, feedErrs,
               lastGet, putLog, printed>>

dlVars == <<monoNow, dlpc, deadline, clampLog>>

brVars == <<brpc, args, brStart, lastCall, stdout, sent, retval, lastEnd>>

mainVars == <<mpc, tickers, answers, mainOut>>

scVars == <<scpc, snapshot, result, locals, calcIn, calcOut, mainVars>>

vars == <<cacheVars, dlVars, brVars, scVars>>

-----------------------------------------------------------------------------
(* Bounds of the model.                                                    *)

\* The wall clock advances between invocations in steps of TickMinutes.
TickMinutes == 5
\* The wall clock stops advancing at MaxWall minutes (just over one hour).
MaxWall == 65
\* Number of configured feeds (sources.json is configuration, not code).
NFeeds == 2

\* Resolution of the monotonic clock: ticks per second.
TicksPerSecond == 2
\* The monotonic clock of the deadline model stops at MaxMono ticks.
MaxMono == 8
\* Largest --deadline argument, default_timeout and minimum tried, in seconds.
MaxSeconds == 3

\* Longest time a subprocess that finishes takes, in ticks.
MaxElapsed == 6

\* calculate_score alone: values range over the halves in -1 .. MaxVal, floor
\* and ceiling over 0 .. MaxVal, the weight over 0 .. MaxWeight.
MaxVal == 4
MaxWeight == 2

\* Largest number of symbols given to score.py on one command line.
MaxBatch == 3

(* Program constants.                                                      *)

\* timedelta(minutes=15) in get_cached_news.
TTL_MINUTES == 15
\* strftime('%Y%m%d_%H') truncates the time to the hour: 60 minutes.
MINUTES_PER_HOUR == 60
\* generate_and_send: the briefing subprocess's timeout without --deadline.
BRIEFING_TIMEOUT == 300
\* generate_and_send: seconds added to --deadline for the subprocess timeout.
BRIEFING_GRACE == 5
\* send_to_whatsapp: timeout of the clawdbot subprocess.
WHATSAPP_TIMEOUT == 30

-----------------------------------------------------------------------------
(* Values.                                                                 *)

Max(a, b) == IF a >= b THEN a ELSE b

Min(a, b) == IF a <= b THEN a ELSE b

\* Python's None.
None == [none |-> TRUE]

\* An optional value that is present.
Some(v) == [none |-> FALSE, v |-> v]

\* A cache key that has no file in CACHE_DIR.
NoFile == [exists |-> FALSE]

\* The feeds of sources['rss_feeds'], in configuration order.
Feeds == 1 .. NFeeds

\* What one fetch_rss call can do: return the parsed items (possibly none),
\* or catch an exception, report it on stderr and return [].
RssOutcomes == { [items |-> <<"headline">>, error |-> FALSE],
                 [items |-> <<>>,           error |-> FALSE],
                 [items |-> <<>>,           error |-> TRUE ] }

\* How long one fetch_rss call can block, in minutes.
RssDurations == {0, TickMinutes}

-----------------------------------------------------------------------------
(* fetch_news.py: the cache.                                               *)

\* A key derivation that rounds to the nearest hour instead of truncating.
all_news_key_rounded(now) == (now + (MINUTES_PER_HOUR \div 2)) \div MINUTES_PER_HOUR

\* cache_key = f"all_news_{datetime.now().strftime('%Y%m%d_%H')}": the time
\* truncated to the hour. The key is represented by the hour's number.
all_news_key(now) == now \div MINUTES_PER_HOUR

\* json.dump(data, f, indent=2, default=str): the news dict as a JSON
\* document, a sequence of (member name, value) pairs in insertion order.
json_dump(data) ==
    << <<"fetched_at", data.fetched_at>>, <<"sources", data.sources>> >>

\* json.load(f): the dict of a JSON document.
json_load(doc) ==
    [fetched_at |-> doc[1][2], sources |-> doc[2][2]]

\* A freshness test that still accepts an entry of exactly the TTL's age.
is_fresh_inclusive(now, mtime) == now - mtime <= TTL_MINUTES

\* datetime.now() - mtime < timedelta(minutes=15)
is_fresh(now, mtime) == now - mtime < TTL_MINUTES

\* get_cached_news(cache_key): the parsed file if it exists and is fresh,
\* None otherwise.
get_cached_news(files, key, now) ==
    IF files[key].exists /\ is_fresh(now, files[key].mtime)
    THEN json_load(files[key].text)
    ELSE None

\* save_cache(cache_key, data): open(cache_file, 'w') creates or truncates
\* the file, whose modification time becomes the time of the write.
save_cache(files, key, data, now) ==
    [files EXCEPT ![key] = [exists |-> TRUE, mtime |-> now,
                            text |-> json_dump(data)]]

\* Python truth value of what get_cached_news returned ("if cached:"): None
\* is false; a parsed news dict has two members, so it is true.
truthy(cached) == cached # None


-----------------------------------------------------------------------------
(* fetch_news.py: fetch_all_news, one blocking call per step.              *)

\* The news dict before any feed was fetched.
NoNews == [fetched_at |-> 0, sources |-> <<>>]

\* Nothing printed yet.
NoPrint == [how |-> "nothing", data |-> None]

\* No get_cached_news call yet.
NoGet == [called |-> FALSE]

\* No save_cache call yet for a key.
NoPut == [called |-> FALSE]

\* The cache keys fetch_all_news can derive while the clock is in range.
Keys == 0 .. all_news_key(MaxWall + NFeeds * TickMinutes)

\* The deadline variables while no deadline model runs.
DlIdle ==
    /\ monoNow = 0
    /\ dlpc = "off"
    /\ deadline = None
    /\ clampLog = [called |-> FALSE]

\* The briefing variables while no briefing model runs.
BrIdle ==
    /\ brpc = "off"
    /\ args = None
    /\ brStart = 0
    /\ lastCall = [started |-> FALSE]
    /\ stdout = None
    /\ sent = <<>>
    /\ retval = None
    /\ lastEnd = None

\* The batch variables while main of score.py does not run.
MainIdle ==
    /\ mpc = "off"
    /\ tickers = <<>>
    /\ answers = <<>>
    /\ mainOut = <<>>

\* The scoring variables while no scoring model runs.
ScIdle ==
    /\ scpc = "off"
    /\ snapshot = None
    /\ result = None
    /\ locals = None
    /\ calcIn = None
    /\ calcOut = None
    /\ MainIdle

InitCache ==
    /\ DlIdle
    /\ BrIdle
    /\ ScIdle
    /\ wallNow = 0
    /\ cache = [k \in Keys |-> NoFile]
    /\ pc = "idle"
    /\ cache_key = 0
    /\ news = NoNews
    /\ feedIdx = 0
    /\ feedErrs = 0
    /\ lastGet = NoGet
    /\ putLog = [k \in Keys |-> NoPut]
    /\ printed = NoPrint

\* Time passes between two invocations of the script; the process of the
\* earlier invocation is gone, and with it what it read and printed.
Tick ==
    /\ pc = "idle"
    /\ wallNow + TickMinutes <= MaxWall
    /\ wallNow' = wallNow + TickMinutes
    /\ lastGet' = NoGet
    /\ printed' = NoPrint
    /\ feedErrs' = 0
    /\ UNCHANGED <<cache, pc, cache_key, news, feedIdx, putLog>>
    /\ UNCHANGED <<dlVars, brVars, scVars>>

\* fetch_all_news up to its first feed fetch: derive the key, consult the
\* cache unless --force, print the cached dict and return on a hit,
\* otherwise start the news dict.
FetchAllStart(force) ==
    /\ pc = "idle"
    /\ LET key    == all_news_key(wallNow)
           cached == get_cached_news(cache, key, wallNow)
       IN  /\ lastGet' = IF force THEN NoGet
                         ELSE [called |-> TRUE, key |-> key, at |-> wallNow,
                               result |-> cached]
           /\ feedErrs' = 0
           /\ IF ~force /\ truthy(cached)
              THEN /\ printed' = [how |-> "cache", data |-> cached]
                   /\ UNCHANGED <<pc, cache_key, news, feedIdx>>
              ELSE /\ pc' = "fetching"
                   /\ cache_key' = key
                   /\ news' = [fetched_at |-> wallNow, sources |-> <<>>]
                   /\ feedIdx' = 1
                   /\ printed' = NoPrint
    /\ UNCHANGED <<wallNow, cache, putLog>>
    /\ UNCHANGED <<dlVars, brVars, scVars>>

\* The articles of one feed as fetch_all_news stores them: each item with
\* its 'feed' member set.
tagged(items, feed) == [i \in 1 .. Len(items) |-> [title |-> items[i], feed |-> feed]]

\* Whether fetch_all_news writes the cache file when its feed loop is over.
\* The code calls save_cache unconditionally.
saves_after_fetch(errs) == TRUE

\* One fetch_rss call of the feed loop, blocking for d minutes, and, after
\* the last feed, the rest of fetch_all_news: save_cache and the printing.
FetchRssStep(outcome, d) ==
    /\ pc = "fetching"
    /\ d = 0 \/ wallNow + d <= MaxWall
    /\ LET now2  == wallNow + d
           news2 == [news EXCEPT !.sources =
                        Append(@, tagged(outcome.items, feedIdx))]
           errs2 == feedErrs + (IF outcome.error THEN 1 ELSE 0)
       IN  /\ wallNow' = now2
           /\ feedErrs' = errs2
           /\ IF feedIdx < NFeeds
              THEN /\ news' = news2
                   /\ feedIdx' = feedIdx + 1
                   /\ UNCHANGED <<cache, pc, cache_key, putLog, printed>>
              ELSE /\ IF saves_after_fetch(errs2)
                      THEN /\ cache' = save_cache(cache, cache_key, news2, now2)
                           /\ putLog' = [putLog EXCEPT ![cache_key] =
                                 [called |-> TRUE, at |-> now2, data |-> news2]]
                      ELSE UNCHANGED <<cache, putLog>>
                   /\ printed' = [how |-> "fetched", data |-> news2]
                   /\ pc' = "idle"
                   /\ cache_key' = 0
                   /\ news' = NoNews
                   /\ feedIdx' = 0
    /\ UNCHANGED lastGet
    /\ UNCHANGED <<dlVars, brVars, scVars>>

FetchAllCached == FetchAllStart(FALSE)

FetchAllForced == FetchAllStart(TRUE)

FetchRss == \E outcome \in RssOutcomes, d \in RssDurations : FetchRssStep(outcome, d)

NextCache ==
    \/ Tick
    \/ FetchAllCached
    \/ FetchAllForced
    \/ FetchRss

SpecCache == InitCache /\ [][NextCache]_vars


-----------------------------------------------------------------------------
(* Properties of the cache and of fetch_all_news (checked under SpecCache). *)

\* The clock hour (date and hour) of a time.
clock_hour(t) == t \div MINUTES_PER_HOUR

\* The step is a get_cached_news call (the one fetch_all_news makes at its
\* start when --force is absent).
GetStep == pc = "idle" /\ lastGet'.called /\ wallNow' = wallNow

\* The step is the start of a fetch_all_news call without --force.
UnforcedStart == GetStep

\* The step ends in a cache hit: the cached dict is printed and the function
\* returns without fetching a feed or touching the cache.
HitStep(data) ==
    /\ printed' = [how |-> "cache", data |-> data]
    /\ pc' = "idle"
    /\ cache' = cache

\* C1: get_cached_news(key) returns the payload most recently stored under
\* key if and only if a save_cache(key, ..) happened and less than 15
\* minutes have passed since the last one; otherwise it returns None.
C1_GetReturnsFreshPayload ==
    [][ GetStep =>
          LET k == lastGet'.key
          IN  /\ lastGet'.at = wallNow
              /\ lastGet'.result =
                    IF putLog[k].called /\ wallNow - putLog[k].at < TTL_MINUTES
                    THEN putLog[k].data
                    ELSE None ]_vars

\* C1 witness: a get_cached_news call 10 minutes after the save_cache of its
\* key has returned the stored payload.
C1_Witness ==
    /\ lastGet.called
    /\ putLog[lastGet.key].called
    /\ lastGet.at - putLog[lastGet.key].at = 2 * TickMinutes
    /\ lastGet.result = putLog[lastGet.key].data
    /\ printed.how = "cache"

\* Some earlier call that started in the same clock hour as now has stored
\* its result under key k.
StoredThisHour(k) ==
    /\ putLog[k].called
    /\ clock_hour(putLog[k].data.fetched_at) = clock_hour(wallNow)

\* C2 as stated: a fetch_all_news call without --force that starts in the
\* clock hour in which an earlier call stored its result hits the cache,
\* whatever the time elapsed since.
C2_SameHourAlwaysHits ==
    [][ UnforcedStart =>
          \A k \in Keys : StoredThisHour(k) => HitStep(putLog[k].data) ]_vars

\* C2 amended: such a call hits the cache (prints the stored payload, fetches
\* no feed) when it starts less than 15 minutes after the result was stored,
\* and misses and starts fetching when 15 minutes or more have passed, even
\* inside the same clock hour.
C2_SameHourHitsWithinTTL ==
    [][ UnforcedStart =>
          \A k \in Keys : StoredThisHour(k) =>
              IF wallNow - putLog[k].at < TTL_MINUTES
              THEN HitStep(putLog[k].data)
              ELSE pc' = "fetching" /\ printed' = NoPrint ]_vars

\* C2 witness: a call in the same clock hour, 10 minutes after the result
\* was stored, has printed the stored payload from the cache.
C2_Witness ==
    /\ printed.how = "cache"
    /\ pc = "idle"
    /\ \E k \in Keys : /\ StoredThisHour(k)
                       /\ wallNow - putLog[k].at = 2 * TickMinutes
                       /\ printed.data = putLog[k].data

\* C4 as stated: a fetch_all_news run in which fetch_rss failed on every
\* feed writes no cache entry.
C4_NoEntryAfterFailedFetch ==
    [][ (pc = "fetching" /\ pc' = "idle" /\ feedErrs' = NFeeds)
          => cache' = cache ]_vars


-----------------------------------------------------------------------------
(* utils.py: deadlines and clamped timeouts.                               *)

\* int(x) for x = ticks / TicksPerSecond seconds: truncation toward zero.
int_seconds(ticks) ==
    IF ticks >= 0 THEN ticks \div TicksPerSecond
    ELSE -((-ticks) \div TicksPerSecond)

\* compute_deadline(deadline_sec) called at time now: None for an absent or
\* non-positive argument, otherwise now + deadline_sec.
compute_deadline(deadline_sec, now) ==
    IF deadline_sec = None THEN None
    ELSE IF deadline_sec.v <= 0 THEN None
    ELSE Some(now + deadline_sec.v * TicksPerSecond)

\* time_left(deadline) called at time now: None when unbounded, otherwise
\* int(deadline - time.monotonic()), in whole seconds.
time_left(dl, now) ==
    IF dl = None THEN None
    ELSE Some(int_seconds(dl.v - now))

\* The outcome of a call: a returned value, or a raised TimeoutError.
Returned(v) == [raised |-> FALSE, value |-> v]

Raised == [raised |-> TRUE]

\* A clamp_timeout that lets a remaining time of exactly 0 through.
clamp_timeout_strict(default_timeout, dl, minimum, now) ==
    LET remaining == time_left(dl, now)
    IN  IF remaining = None THEN Returned(default_timeout)
        ELSE IF remaining.v < 0 THEN Raised
        ELSE Returned(Max(Min(default_timeout, remaining.v), minimum))

\* clamp_timeout(default_timeout, deadline, minimum) called at time now.
clamp_timeout(default_timeout, dl, minimum, now) ==
    LET remaining == time_left(dl, now)
    IN  IF remaining = None THEN Returned(default_timeout)
        ELSE IF remaining.v <= 0 THEN Raised
        ELSE Returned(Max(Min(default_timeout, remaining.v), minimum))

\* The --deadline values an invocation can be given.
DeadlineArgs == {None} \cup {Some(n) : n \in -1 .. MaxSeconds}

InitDeadline ==
    /\ monoNow = 0
    /\ dlpc = "start"
    /\ deadline = None
    /\ clampLog = [called |-> FALSE]
    /\ wallNow = 0
    /\ cache = [k \in Keys |-> NoFile]
    /\ pc = "off"
    /\ cache_key = 0
    /\ news = NoNews
    /\ feedIdx = 0
    /\ feedErrs = 0
    /\ lastGet = NoGet
    /\ putLog = [k \in Keys |-> NoPut]
    /\ printed = NoPrint
    /\ BrIdle
    /\ ScIdle

\* The invocation resolves its deadline, once.
ComputeDeadline(deadline_sec) ==
    /\ dlpc = "start"
    /\ deadline' = compute_deadline(deadline_sec, monoNow)
    /\ dlpc' = "running"
    /\ UNCHANGED <<monoNow, clampLog>>
    /\ UNCHANGED <<cacheVars, brVars, scVars>>

\* The monotonic clock advances.
MonoTick ==
    /\ dlpc = "running"
    /\ monoNow < MaxMono
    /\ monoNow' = monoNow + 1
    /\ UNCHANGED <<dlpc, deadline, clampLog>>
    /\ UNCHANGED <<cacheVars, brVars, scVars>>

\* A caller about to start a blocking call asks for its timeout.
ClampCall(default_timeout, minimum) ==
    /\ dlpc = "running"
    /\ clampLog' = [called |-> TRUE, at |-> monoNow,
                    default_timeout |-> default_timeout, minimum |-> minimum,
                    result |-> clamp_timeout(default_timeout, deadline,
                                             minimum, monoNow)]
    /\ UNCHANGED <<monoNow, dlpc, deadline>>
    /\ UNCHANGED <<cacheVars, brVars, scVars>>

ResolveDeadline == \E deadline_sec \in DeadlineArgs : ComputeDeadline(deadline_sec)

Clamp == \E default_timeout \in 1 .. MaxSeconds, minimum \in 0 .. MaxSeconds :
            ClampCall(default_timeout, minimum)

NextDeadline ==
    \/ ResolveDeadline
    \/ MonoTick
    \/ Clamp

SpecDeadline == InitDeadline /\ [][NextDeadline]_vars

-----------------------------------------------------------------------------
(* Properties of clamp_timeout (checked under SpecDeadline).               *)

\* The last clamp_timeout call was made against a bounded deadline with
\* `left` ticks remaining (deadline minus now, not rounded).
ClampedWithLeft(left) ==
    /\ clampLog.called
    /\ deadline # None
    /\ deadline.v - clampLog.at = left

\* C5 as stated: with a bounded deadline and a remaining time strictly
\* greater than 0, however small, clamp_timeout does not fail and returns
\* max(min(default_timeout, remaining), minimum).
C5_ClampReturnsWhenTimeRemains ==
    \A left \in 1 .. MaxSeconds * TicksPerSecond :
        ClampedWithLeft(left) =>
            /\ ~clampLog.result.raised
            /\ clampLog.result.value * TicksPerSecond =
                 Max(Min(clampLog.default_timeout * TicksPerSecond, left),
                     clampLog.minimum * TicksPerSecond)

\* C6: with a bounded deadline and a remaining time of exactly 0 or less,
\* clamp_timeout raises for every default_timeout and minimum; the deadline
\* never changes once computed, and after a failed clamp_timeout every later
\* clamp_timeout call of the invocation fails too.
C6_ClampFailsAtAndAfterDeadline ==
    /\ [](\A left \in -MaxMono .. 0 :
            ClampedWithLeft(left) => clampLog.result = Raised)
    /\ [][dlpc = "running" => deadline' = deadline]_vars
    /\ [][(clampLog.called /\ clampLog.result.raised /\ clampLog'.called)
            => clampLog'.result.raised]_vars

\* C6 witness: clamp_timeout was called with exactly 0 remaining, later than
\* the start of the invocation, and raised.
C6_Witness ==
    /\ ClampedWithLeft(0)
    /\ clampLog.at > 0
    /\ clampLog.result = Raised


-----------------------------------------------------------------------------
(* briefing.py: generate_and_send, one blocking call per step.             *)

\* The command lines tried: --deadline, --send, --group (empty or not) and
\* --json.
ArgsChoices ==
    [deadline : {None} \cup {Some(n) : n \in 0 .. MaxSeconds},
     send : BOOLEAN, group : {"", "group"}, json : BOOLEAN]

\* What the summarize.py subprocess can write to its standard output, after
\* strip(): plain text, nothing, a JSON object with a non-empty, an empty or
\* no 'summary' member, or JSON that is no object (an array).
StdoutChoices ==
    { [text |-> "briefing text", parses |-> FALSE, dict |-> FALSE, summary |-> ""],
      [text |-> "",              parses |-> FALSE, dict |-> FALSE, summary |-> ""],
      [text |-> "json+summary",  parses |-> TRUE,  dict |-> TRUE,  summary |-> "the summary"],
      [text |-> "json-summary",  parses |-> TRUE,  dict |-> TRUE,  summary |-> ""],
      [text |-> "json array",    parses |-> TRUE,  dict |-> FALSE, summary |-> ""] }

\* The timeout generate_and_send gives the briefing subprocess:
\*   timeout = args.deadline if args.deadline is not None else 300
\*   timeout = max(1, int(timeout)); with --deadline, timeout + 5.
briefing_timeout(a) ==
    LET t == Max(1, IF a.deadline # None THEN a.deadline.v ELSE BRIEFING_TIMEOUT)
    IN  IF a.deadline # None THEN t + BRIEFING_GRACE ELSE t

\* A generate_and_send that sends whether or not --send was given.
message_to_send_unasked(a, out) ==
    IF a.json
    THEN IF out.parses /\ out.dict /\ out.summary # "" THEN Some(out.summary)
         ELSE None
    ELSE Some(out.text)

\* The message generate_and_send hands to send_to_whatsapp after printing
\* the briefing, or None when it sends nothing.
message_to_send(a, out) ==
    IF ~(a.send /\ a.group # "") THEN None
    ELSE IF a.json
         THEN IF out.parses /\ out.dict /\ out.summary # ""
              THEN Some(out.summary) ELSE None
         ELSE Some(out.text)

\* In JSON mode data.get('summary', '') raises AttributeError when the
\* output parses to something that is no object; only JSONDecodeError is
\* caught, so generate_and_send raises after it printed the briefing.
send_raises(a, out) ==
    a.send /\ a.group # "" /\ a.json /\ out.parses /\ ~out.dict

InitBriefing ==
    /\ brpc = "start"
    /\ args = None
    /\ brStart = 0
    /\ lastCall = [started |-> FALSE]
    /\ stdout = None
    /\ sent = <<>>
    /\ retval = None
    /\ lastEnd = None
    /\ DlIdle
    /\ ScIdle
    /\ wallNow = 0
    /\ cache = [k \in Keys |-> NoFile]
    /\ pc = "off"
    /\ cache_key = 0
    /\ news = NoNews
    /\ feedIdx = 0
    /\ feedErrs = 0
    /\ lastGet = NoGet
    /\ putLog = [k \in Keys |-> NoPut]
    /\ printed = NoPrint

\* generate_and_send up to its first blocking call: build the command,
\* compute the timeout and start the briefing subprocess.
GenStart(a) ==
    /\ brpc = "start"
    /\ args' = a
    /\ brStart' = monoNow
    /\ lastCall' = [started |-> TRUE, kind |-> "briefing", at |-> monoNow,
                    timeout |-> briefing_timeout(a)]
    /\ brpc' = "generating"
    /\ UNCHANGED <<stdout, sent, retval, lastEnd>>
    /\ UNCHANGED <<cacheVars, monoNow, dlpc, deadline, clampLog, scVars>>

\* The briefing subprocess ends after d ticks with return code rc and output
\* out: exit 1 on failure; otherwise print the briefing and either start the
\* send_to_whatsapp subprocess or return.
GenReturn(rc, out, d) ==
    /\ brpc = "generating"
    /\ d <= lastCall.timeout * TicksPerSecond
    /\ monoNow' = monoNow + d
    /\ IF rc # 0
       THEN /\ brpc' = "exit1"
            /\ UNCHANGED <<lastCall, stdout, sent>>
       ELSE /\ stdout' = Some(out.text)
            /\ LET message == message_to_send(args, out)
               IN  IF send_raises(args, out)
                   THEN /\ brpc' = "raised"
                        /\ UNCHANGED <<lastCall, sent>>
                   ELSE IF message # None
                   THEN /\ lastCall' = [started |-> TRUE, kind |-> "whatsapp",
                                        at |-> monoNow + d,
                                        timeout |-> WHATSAPP_TIMEOUT]
                        /\ sent' = Append(sent, message.v)
                        /\ brpc' = "sending"
                   ELSE /\ brpc' = "returned"
                        /\ UNCHANGED <<lastCall, sent>>
    /\ retval' = IF /\ rc = 0
                    /\ message_to_send(args, out) = None
                    /\ ~send_raises(args, out)
                 THEN Some(out.text) ELSE retval
    /\ lastEnd' = [kind |-> "briefing", ok |-> rc = 0, timedout |-> FALSE]
    /\ UNCHANGED <<args, brStart>>
    /\ UNCHANGED <<cacheVars, dlpc, deadline, clampLog, scVars>>

\* The briefing subprocess does not end within its timeout: subprocess.run
\* raises TimeoutExpired, which nothing in briefing.py catches.
GenTimeout ==
    /\ brpc = "generating"
    /\ monoNow' = monoNow + lastCall.timeout * TicksPerSecond
    /\ brpc' = "raised"
    /\ lastEnd' = [kind |-> "briefing", ok |-> FALSE, timedout |-> TRUE]
    /\ UNCHANGED <<args, brStart, lastCall, stdout, sent, retval>>
    /\ UNCHANGED <<cacheVars, dlpc, deadline, clampLog, scVars>>

\* The clawdbot subprocess ends after d ticks (return code 0 or not, or an
\* exception that send_to_whatsapp catches): send_to_whatsapp returns True
\* or False, which generate_and_send ignores, and the briefing is returned.
SendReturn(ok, d) ==
    /\ brpc = "sending"
    /\ monoNow' = monoNow + d
    /\ brpc' = "returned"
    /\ retval' = stdout
    /\ lastEnd' = [kind |-> "whatsapp", ok |-> ok, timedout |-> FALSE]
    /\ UNCHANGED <<args, brStart, lastCall, stdout, sent>>
    /\ UNCHANGED <<cacheVars, dlpc, deadline, clampLog, scVars>>

Generate == \E a \in ArgsChoices : GenStart(a)

Generated == \E rc \in {0, 1}, out \in StdoutChoices, d \in 0 .. MaxElapsed :
                GenReturn(rc, out, d)

Sent == \E ok \in BOOLEAN, d \in 0 .. MaxElapsed : SendReturn(ok, d)

NextBriefing ==
    \/ Generate
    \/ Generated
    \/ GenTimeout
    \/ Sent

SpecBriefing == InitBriefing /\ [][NextBriefing]_vars

-----------------------------------------------------------------------------
(* Properties of the orchestration's blocking calls (under SpecBriefing).  *)

\* The overall deadline of the briefing invocation, as utils.py computes it
\* from the --deadline argument at the start of the invocation.
overall_deadline == compute_deadline(args.deadline, brStart)

\* The fixed timeout the code gives each kind of blocking call.
default_timeout_of(kind) ==
    IF kind = "briefing" THEN BRIEFING_TIMEOUT ELSE WHATSAPP_TIMEOUT

\* C3 as stated: under a bounded overall deadline a blocking call is started
\* only before the deadline (once it has passed the call is not attempted),
\* and its timeout is the one clamp_timeout gives for the remaining budget.
C3_BlockingCallsHonourDeadline ==
    (lastCall.started /\ overall_deadline # None) =>
        /\ lastCall.at < overall_deadline.v
        /\ Returned(lastCall.timeout) =
             clamp_timeout(default_timeout_of(lastCall.kind), overall_deadline,
                           1, lastCall.at)


-----------------------------------------------------------------------------
(* score.py: numbers.                                                      *)
(*                                                                         *)
(* A float is modelled by an exact rational <<n, d>> in lowest terms with  *)
(* d > 0, or by NaN == <<0, 0>>, the value pandas gives a missing cell.    *)
(* Every comparison with NaN is false and every operation on NaN is NaN,   *)
(* as in IEEE 754.                                                          *)

NaN == <<0, 0>>

IsNaN(x) == x[2] = 0

RECURSIVE GCD(_, _)
GCD(a, b) == IF b = 0 THEN a ELSE GCD(b, a % b)

AbsInt(n) == IF n < 0 THEN -n ELSE n

\* n/d in lowest terms, d # 0.
Q(n, d) ==
    LET g  == GCD(AbsInt(n), AbsInt(d))
        sn == IF d < 0 THEN -n ELSE n
    IN  <<sn \div g, AbsInt(d) \div g>>

\* The integer n.
Z(n) == <<n, 1>>

Add(x, y) == IF IsNaN(x) \/ IsNaN(y) THEN NaN
             ELSE Q(x[1] * y[2] + y[1] * x[2], x[2] * y[2])

Sub(x, y) == IF IsNaN(x) \/ IsNaN(y) THEN NaN
             ELSE Q(x[1] * y[2] - y[1] * x[2], x[2] * y[2])

\* x * y, reducing crosswise first to keep the products small.
Mul(x, y) == IF IsNaN(x) \/ IsNaN(y) THEN NaN
             ELSE LET a == Q(x[1], y[2])
                      b == Q(y[1], x[2])
                  IN  Q(a[1] * b[1], a[2] * b[2])

\* x / y for y # 0 (every division of score.py is guarded against 0).
Div(x, y) == IF IsNaN(x) \/ IsNaN(y) THEN NaN
             ELSE Mul(x, Q(y[2], y[1]))

AbsQ(x) == IF IsNaN(x) THEN NaN ELSE <<AbsInt(x[1]), x[2]>>

Ge(x, y) == ~IsNaN(x) /\ ~IsNaN(y) /\ x[1] * y[2] >= y[1] * x[2]

Le(x, y) == ~IsNaN(x) /\ ~IsNaN(y) /\ x[1] * y[2] <= y[1] * x[2]

Gt(x, y) == ~IsNaN(x) /\ ~IsNaN(y) /\ x[1] * y[2] > y[1] * x[2]

Lt(x, y) == ~IsNaN(x) /\ ~IsNaN(y) /\ x[1] * y[2] < y[1] * x[2]

\* x == 0 in Python: false for NaN.
IsZero(x) == ~IsNaN(x) /\ x[1] = 0

\* bool(x) of a number: false only for 0 (NaN is true).
Nonzero(x) == ~IsZero(x)

\* A value that is no number (a str such as 'N/A'): it is true, and
\* arithmetic between it and a number raises TypeError.
NotNumber == <<1, -1>>

is_number(x) == x # NotNumber

\* The largest cube root taken.
MaxRoot == 20

\* The k with k^3 = n, for a perfect cube n >= 0.
ICbrt(n) == CHOOSE k \in 0 .. Min(n, MaxRoot) : k * k * k = n

\* x ** (1/3) for x >= 0 whose numerator and denominator are perfect cubes
\* (the snapshots tried are chosen so that every growth ratio is one).
Cbrt(x) == IF IsNaN(x) THEN NaN ELSE Q(ICbrt(x[1]), ICbrt(x[2]))

\* round(x, 1): the nearest multiple of 1/10, a tie going to the even one.
round1(x) ==
    IF IsNaN(x) THEN NaN
    ELSE LET t   == 10 * x[1]
             q   == t \div x[2]
             rem == t - q * x[2]
             up  == \/ 2 * rem > x[2]
                    \/ 2 * rem = x[2] /\ q % 2 = 1
         IN  Q(IF up THEN q + 1 ELSE q, 10)

-----------------------------------------------------------------------------
(* score.py: calculate_score and the helpers of analyze_ticker.            *)

\* A calculate_score whose interpolation forgets the floor offset.
calculate_score_nofloor(val, min_val, max_val, max_points) ==
    IF Ge(val, max_val) THEN max_points
    ELSE IF Le(val, min_val) THEN Z(0)
    ELSE Mul(Div(val, Sub(max_val, min_val)), max_points)

\* calculate_score(val, min_val, max_val, max_points): linear interpolation.
calculate_score(val, min_val, max_val, max_points) ==
    IF Ge(val, max_val) THEN max_points
    ELSE IF Le(val, min_val) THEN Z(0)
    ELSE Mul(Div(Sub(val, min_val), Sub(max_val, min_val)), max_points)

\* get_latest(df, key): the row's most recent cell, 0 when the row is absent.
get_latest(df, key) ==
    IF key \in DOMAIN df THEN df[key][1] ELSE Z(0)

\* get_historical(df, key, years_back): the row's cell years_back columns
\* back, clamped to the oldest column; None when the row is absent.
get_historical(df, key, years_back) ==
    IF key \in DOMAIN df
    THEN Some(df[key][Min(years_back, Len(df[key]) - 1) + 1])
    ELSE None

-----------------------------------------------------------------------------
(* score.py: analyze_ticker.                                               *)
(*                                                                         *)
(* A snapshot is what yfinance answers for one symbol: raises (the         *)
(* provider threw while the statements or info were read), the three       *)
(* statements (a function from row name to the row's cells, most recent    *)
(* first; the empty function is an empty DataFrame) and the info mapping   *)
(* (each member a number or None).                                          *)

\* A recommendation whose BUY band excludes a total of exactly 70.
recommendation_exclusive(total_score) ==
    IF Gt(total_score, Z(70)) THEN "BUY / ACCUMULATE"
    ELSE IF Ge(total_score, Z(50)) THEN "HOLD"
    ELSE "PASS / SELL"

\* The recommendation band of a total score.
\*   if total_score >= 70: BUY / ACCUMULATE
\*   elif total_score >= 50: HOLD      else: PASS / SELL
recommendation(total_score) ==
    IF Ge(total_score, Z(70)) THEN "BUY / ACCUMULATE"
    ELSE IF Ge(total_score, Z(50)) THEN "HOLD"
    ELSE "PASS / SELL"

\* The growth section of analyze_ticker: the growth value and its label.
\*   fcf, revenue: the latest free cash flow and revenue.
growth_of(cash_flow, income_stmt, fcf, revenue) ==
    LET ocf_3y   == get_historical(cash_flow, "Operating Cash Flow", 3)
        capex_3y == get_historical(cash_flow, "Capital Expenditure", 3)
        primary  == [value |-> Z(0), name |-> "FCF CAGR (3y)"]
        cagr(now, then) == Mul(Sub(Cbrt(Div(now, then)), Z(1)), Z(100))
    IN  IF ocf_3y = None THEN primary
        ELSE LET fcf_3y == Sub(ocf_3y.v,
                               AbsQ(IF capex_3y # None /\ Nonzero(capex_3y.v)
                                    THEN capex_3y.v ELSE Z(0)))
             IN  IF Gt(fcf_3y, Z(0)) /\ Gt(fcf, Z(0))
                 THEN [primary EXCEPT !.value = cagr(fcf, fcf_3y)]
                 ELSE LET rev_3y == get_historical(income_stmt, "Total Revenue", 3)
                      IN  IF rev_3y # None /\ Nonzero(rev_3y.v) /\ Gt(rev_3y.v, Z(0))
                          THEN [value |-> cagr(revenue, rev_3y.v),
                                name |-> "Rev CAGR (3y) [FCF invalid]"]
                          ELSE primary

\* The market cap analyze_ticker values the company at: info['marketCap'],
\* or price * shares when that is absent or 0, or None.
market_cap_of(info) ==
    IF info.marketCap # None /\ Nonzero(info.marketCap.v) THEN info.marketCap
    ELSE LET price == IF info.currentPrice # None /\ Nonzero(info.currentPrice.v)
                      THEN info.currentPrice ELSE info.previousClose
             shares == info.sharesOutstanding
         IN  IF /\ price # None /\ Nonzero(price.v)
                /\ shares # None /\ Nonzero(shares.v)
             THEN Some(Mul(price.v, shares.v))
             ELSE info.marketCap

\* One MetricResult of the report.
metric(value, score, max) == [value |-> value, score |-> round1(score), max |-> max]

\* An error record that still carries a score.
error_record_partial(message) ==
    [result |-> [error |-> message, score |-> Z(0)], locals |-> None]

\* What analyze_ticker returns on a failure: {"error": message}.
error_record(message) == [result |-> [error |-> message], locals |-> None]

\* analyze_ticker(ticker_symbol) when yfinance answers snap: the returned
\* dict (result) and, for a report, the full-precision values it was built
\* from (locals). Of the scoring arithmetic only fcf / market_cap meets a
\* value that may be no number here; its TypeError is caught by the outer
\* except.
analyze_ticker(snap) ==
    IF snap.raises
    THEN error_record("Failed to fetch data")
    ELSE IF \/ DOMAIN snap.income_stmt = {}
            \/ DOMAIN snap.balance_sheet = {}
            \/ DOMAIN snap.cash_flow = {}
    THEN error_record("Missing financial statements")
    ELSE
    LET income_stmt   == snap.income_stmt
        balance_sheet == snap.balance_sheet
        cash_flow     == snap.cash_flow
        \* --- 1. ROIC (35 pts) ---
        ebit0 == get_latest(income_stmt, "Ebit")
        ebit  == IF IsZero(ebit0) THEN get_latest(income_stmt, "Operating Income")
                 ELSE ebit0
        tax_provision == get_latest(income_stmt, "Tax Provision")
        pretax_income == get_latest(income_stmt, "Pretax Income")
        tax_rate == IF Nonzero(pretax_income) THEN Div(tax_provision, pretax_income)
                    ELSE Q(21, 100)
        nopat == Mul(ebit, Sub(Z(1), tax_rate))
        invested_capital == Sub(get_latest(balance_sheet, "Total Assets"),
                                get_latest(balance_sheet, "Current Liabilities"))
        roic == IF Nonzero(invested_capital)
                THEN Mul(Div(nopat, invested_capital), Z(100)) ELSE Z(0)
        score_roic == calculate_score(roic, Z(10), Z(20), Z(35))
        \* --- 2. FCF Margin (25 pts) ---
        ocf     == get_latest(cash_flow, "Operating Cash Flow")
        capex   == get_latest(cash_flow, "Capital Expenditure")
        fcf     == Sub(ocf, AbsQ(capex))
        revenue == get_latest(income_stmt, "Total Revenue")
        fcf_margin == IF Nonzero(revenue) THEN Mul(Div(fcf, revenue), Z(100))
                      ELSE Z(0)
        score_margin == calculate_score(fcf_margin, Z(10), Z(25), Z(25))
        \* --- 3. Growth (20 pts) ---
        growth == growth_of(cash_flow, income_stmt, fcf, revenue)
        score_growth == calculate_score(growth.value, Z(5), Z(15), Z(20))
        \* --- 4. Valuation (20 pts) ---
        market_cap == market_cap_of(snap.info)
        fcf_yield == IF market_cap # None /\ Nonzero(market_cap.v)
                     THEN Mul(Div(fcf, market_cap.v), Z(100)) ELSE Z(0)
        score_val == calculate_score(fcf_yield, Z(2), Z(4), Z(20))
        total_score == Add(Add(Add(score_roic, score_margin), score_growth),
                           score_val)
    IN  IF market_cap # None /\ ~is_number(market_cap.v)
        THEN error_record("unsupported operand type(s) for /")
        ELSE
        [result |->
           [score |-> round1(total_score),
            recommendation |-> recommendation(total_score),
            price |-> snap.info.currentPrice,
            metrics |->
              [ROIC       |-> metric(roic, score_roic, 35),
               FCF_Margin |-> metric(fcf_margin, score_margin, 25),
               Growth     |-> metric(growth.value, score_growth, 20) @@
                              [name |-> growth.name],
               Valuation  |-> metric(fcf_yield, score_val, 20)]],
         locals |->
           [fcf |-> fcf, revenue |-> revenue,
            score_roic |-> score_roic, score_margin |-> score_margin,
            score_growth |-> score_growth, score_val |-> score_val,
            total_score |-> total_score]]

-----------------------------------------------------------------------------
(* score.py: the snapshots tried.                                          *)

\* A row of a statement with `periods` columns: its latest cell and, when
\* there are four columns, its oldest (the columns between are not read).
row(latest, oldest, periods) ==
    IF periods = 1 THEN <<latest>> ELSE <<latest, latest, oldest, oldest>>

\* A statement: the rows that are present. r maps a row name to <<>> (row
\* absent) or <<latest, oldest>>. "Net Income" is always there, so that a
\* statement with none of the rows read is still not an empty DataFrame.
statement(r, periods) ==
    [k \in {"Net Income"} \cup {n \in DOMAIN r : r[n] # <<>>} |->
        IF k = "Net Income" THEN row(Z(1), Z(1), periods)
        ELSE row(r[k][1], r[k][2], periods)]

\* An empty DataFrame.
EmptyFrame == [k \in {} |-> <<>>]

\* The cells tried for each row (<<>>: the row is absent). The amounts are
\* chosen so that every factor reaches its floor, its ceiling and a value in
\* between, and so that each growth ratio is a perfect cube.
EbitRows    == { <<>>, <<Z(25), Z(25)>>, <<NaN, NaN>> }
OpIncRows   == { <<>>, <<Z(15), Z(15)>> }
PretaxRows  == { <<>>, <<Z(100), Z(100)>> }
RevenueRows == { <<>>, <<Z(53240), Z(40000)>>, <<Z(37268), Z(37268)>>,
                 <<Z(53240), Z(0)>> }
AssetRows   == { <<Z(200), Z(200)>> }
LiabRows    == { <<Z(100), Z(100)>>, <<Z(200), Z(200)>> }
OcfRows     == { <<>>, <<Z(10648), Z(8000)>>, <<Z(1000), Z(8000)>>,
                 <<Z(10648), Z(0)>> }
CapexRows   == { <<>>, <<Z(-1331), Z(-1000)>>, <<NaN, NaN>> }

NoInfo == [marketCap |-> None, currentPrice |-> None, previousClose |-> None,
           sharesOutstanding |-> None]

\* The info mappings tried: a market cap (FCF yield 1%, 4% or just under 3%
\* of an FCF of 9317), one that is no number, none but a price and a share
\* count to rebuild it from, or neither.
Infos ==
    { [NoInfo EXCEPT !.marketCap = Some(Z(931700)), !.currentPrice = Some(Z(100))],
      [NoInfo EXCEPT !.marketCap = Some(Z(311000))],
      [NoInfo EXCEPT !.marketCap = Some(NotNumber)],
      [NoInfo EXCEPT !.marketCap = Some(Z(232925))],
      [NoInfo EXCEPT !.currentPrice = Some(Z(100)),
                     !.sharesOutstanding = Some(Z(9317))],
      [NoInfo EXCEPT !.marketCap = Some(Z(0)), !.previousClose = Some(Z(25)),
                     !.sharesOutstanding = Some(Z(9317))],
      [NoInfo EXCEPT !.currentPrice = Some(Z(100))],
      NoInfo }

\* Snapshots with all three statements present.
FullSnapshots ==
    { [raises |-> FALSE,
       income_stmt |-> statement(
           [n \in {"Ebit", "Operating Income", "Pretax Income", "Total Revenue"} |->
              CASE n = "Ebit" -> e [] n = "Operating Income" -> o
                [] n = "Pretax Income" -> p [] OTHER -> r], periods),
       balance_sheet |-> statement(
           [n \in {"Total Assets", "Current Liabilities"} |->
              IF n = "Total Assets" THEN a ELSE l], periods),
       cash_flow |-> statement(
           [n \in {"Operating Cash Flow", "Capital Expenditure"} |->
              IF n = "Operating Cash Flow" THEN c ELSE x], periods),
       info |-> i] :
      e \in EbitRows, o \in OpIncRows, p \in PretaxRows, r \in RevenueRows,
      a \in AssetRows, l \in LiabRows, c \in OcfRows, x \in CapexRows,
      i \in Infos, periods \in {1, 4} }

\* Snapshots the provider failed on: an exception, or an empty statement.
FailedSnapshots ==
    LET ok == statement([n \in {} |-> <<>>], 1)
    IN  { [raises |-> TRUE, income_stmt |-> EmptyFrame, balance_sheet |-> EmptyFrame,
           cash_flow |-> EmptyFrame, info |-> NoInfo],
          [raises |-> FALSE, income_stmt |-> EmptyFrame, balance_sheet |-> ok,
           cash_flow |-> ok, info |-> NoInfo],
          [raises |-> FALSE, income_stmt |-> ok, balance_sheet |-> EmptyFrame,
           cash_flow |-> ok, info |-> NoInfo],
          [raises |-> FALSE, income_stmt |-> ok, balance_sheet |-> ok,
           cash_flow |-> EmptyFrame, info |-> NoInfo] }

Snapshots == FullSnapshots \cup FailedSnapshots

InitScore ==
    /\ scpc = "fetch"
    /\ snapshot = None
    /\ result = None
    /\ locals = None
    /\ calcIn = None
    /\ calcOut = None
    /\ MainIdle
    /\ DlIdle
    /\ BrIdle
    /\ wallNow = 0
    /\ cache = [k \in Keys |-> NoFile]
    /\ pc = "off"
    /\ cache_key = 0
    /\ news = NoNews
    /\ feedIdx = 0
    /\ feedErrs = 0
    /\ lastGet = NoGet
    /\ putLog = [k \in Keys |-> NoPut]
    /\ printed = NoPrint

\* analyze_ticker runs for a symbol for which the provider answers snap.
AnalyzeTicker(snap) ==
    /\ scpc = "fetch"
    /\ snapshot' = snap
    /\ LET returned == analyze_ticker(snap)
       IN  /\ result' = returned.result
           /\ locals' = returned.locals
    /\ scpc' = "done"
    /\ UNCHANGED <<calcIn, calcOut, mainVars>>
    /\ UNCHANGED <<cacheVars, dlVars, brVars>>

Analyze == scpc = "fetch" /\ \E snap \in Snapshots : AnalyzeTicker(snap)

NextScore == Analyze

SpecScore == InitScore /\ [][NextScore]_vars

\* The values tried for calculate_score alone: the halves in -1 .. MaxVal, and NaN.
CalcVals == {Q(k, 2) : k \in -2 .. 2 * MaxVal} \cup {NaN}

\* The (floor, ceiling, weight) tried: floor < ceiling, weight >= 0.
CalcParams ==
    {p \in [floor : 0 .. MaxVal, ceiling : 0 .. MaxVal, weight : 0 .. MaxWeight] :
        p.floor < p.ceiling}

InitCalc ==
    /\ scpc = "calc"
    /\ snapshot = None
    /\ result = None
    /\ locals = None
    /\ calcIn = None
    /\ calcOut = None
    /\ MainIdle
    /\ DlIdle
    /\ BrIdle
    /\ wallNow = 0
    /\ cache = [k \in Keys |-> NoFile]
    /\ pc = "off"
    /\ cache_key = 0
    /\ news = NoNews
    /\ feedIdx = 0
    /\ feedErrs = 0
    /\ lastGet = NoGet
    /\ putLog = [k \in Keys |-> NoPut]
    /\ printed = NoPrint

\* calculate_score is applied to two values under the same parameters.
CalculateScore(val1, val2, p) ==
    /\ scpc = "calc"
    /\ calcIn' = [val1 |-> val1, val2 |-> val2, floor |-> p.floor,
                  ceiling |-> p.ceiling, weight |-> p.weight]
    /\ calcOut' = [s1 |-> calculate_score(val1, Z(p.floor), Z(p.ceiling), Z(p.weight)),
                   s2 |-> calculate_score(val2, Z(p.floor), Z(p.ceiling), Z(p.weight))]
    /\ scpc' = "calculated"
    /\ UNCHANGED <<snapshot, result, locals, mainVars>>
    /\ UNCHANGED <<cacheVars, dlVars, brVars>>

Calculate == scpc = "calc" /\ \E val1 \in CalcVals, val2 \in CalcVals, p \in CalcParams :
                                  CalculateScore(val1, val2, p)

NextCalc == Calculate

SpecCalc == InitCalc /\ [][NextCalc]_vars

-----------------------------------------------------------------------------
(* score.py: main, one loop iteration per step.                            *)

\* The symbols a command line is made of (a symbol may be given twice).
Symbols == {"AAA", "BBB"}

\* The command lines tried: sys.argv[1:] of length 0 .. MaxBatch.
TickerLists == UNION { [1 .. n -> Symbols] : n \in 0 .. MaxBatch }

\* A snapshot that scores: EBIT 25 on an invested capital of 100, an FCF of
\* 9317 on a revenue of 37268, one period only, market cap mc.
ScoringSnapshot(mc) ==
    [raises |-> FALSE,
     income_stmt |-> statement(
         [n \in {"Ebit", "Pretax Income", "Total Revenue"} |->
            CASE n = "Ebit" -> <<Z(25), Z(25)>>
              [] n = "Pretax Income" -> <<Z(100), Z(100)>>
              [] OTHER -> <<Z(37268), Z(37268)>>], 1),
     balance_sheet |-> statement(
         [n \in {"Total Assets", "Current Liabilities"} |->
            IF n = "Total Assets" THEN <<Z(200), Z(200)>>
            ELSE <<Z(100), Z(100)>>], 1),
     cash_flow |-> statement(
         [n \in {"Operating Cash Flow", "Capital Expenditure"} |->
            IF n = "Operating Cash Flow" THEN <<Z(10648), Z(8000)>>
            ELSE <<Z(-1331), Z(-1000)>>], 1),
     info |-> [NoInfo EXCEPT !.marketCap = Some(mc)]]

\* What the provider answers for a symbol of a batch: it raises, a statement
\* is empty, the scoring raises, or the symbol scores.
BatchSnapshots ==
    { CHOOSE f \in FailedSnapshots : f.raises,
      CHOOSE f \in FailedSnapshots : ~f.raises /\ DOMAIN f.income_stmt = {},
      ScoringSnapshot(NotNumber),
      ScoringSnapshot(Z(232925)) }

\* A main that gives up the batch at the first symbol that fails.
after_ticker_abort(data, i, n) ==
    IF "error" \in DOMAIN data THEN "exit1"
    ELSE IF i < n THEN "loop" ELSE "exit0"

\* Where main goes after the i-th of n tickers returned data: to the next
\* ticker (`continue` after an error line, the end of the loop body after a
\* report), or off the end of main.
after_ticker(data, i, n) == IF i < n THEN "loop" ELSE "exit0"

\* An error line that does not name its ticker.
outcome_line_anonymous(ticker, data) ==
    IF "error" \in DOMAIN data
    THEN [kind |-> "error", ticker |-> "", error |-> data.error]
    ELSE [kind |-> "report", ticker |-> ticker, score |-> data.score,
          recommendation |-> data.recommendation,
          scores |-> [m \in DOMAIN data.metrics |-> data.metrics[m].score]]

\* What main prints for one ticker: the error line, or the report lines.
outcome_line(ticker, data) ==
    IF "error" \in DOMAIN data
    THEN [kind |-> "error", ticker |-> ticker, error |-> data.error]
    ELSE [kind |-> "report", ticker |-> ticker, score |-> data.score,
          recommendation |-> data.recommendation,
          scores |-> [m \in DOMAIN data.metrics |-> data.metrics[m].score]]

InitMain ==
    /\ mpc = "start"
    /\ tickers \in TickerLists
    /\ answers = <<>>
    /\ mainOut = <<>>
    /\ scpc = "off"
    /\ snapshot = None
    /\ result = None
    /\ locals = None
    /\ calcIn = None
    /\ calcOut = None
    /\ DlIdle
    /\ BrIdle
    /\ wallNow = 0
    /\ cache = [k \in Keys |-> NoFile]
    /\ pc = "off"
    /\ cache_key = 0
    /\ news = NoNews
    /\ feedIdx = 0
    /\ feedErrs = 0
    /\ lastGet = NoGet
    /\ putLog = [k \in Keys |-> NoPut]
    /\ printed = NoPrint

\* main without a symbol: the usage line, and exit status 1.
MainUsage ==
    /\ mpc = "start"
    /\ Len(tickers) < 1
    /\ mpc' = "exit1"
    /\ UNCHANGED <<tickers, answers, mainOut>>
    /\ UNCHANGED <<scpc, snapshot, result, locals, calcIn, calcOut>>
    /\ UNCHANGED <<cacheVars, dlVars, brVars>>

\* main with symbols: the two heading lines, then the loop.
MainBegin ==
    /\ mpc = "start"
    /\ Len(tickers) >= 1
    /\ mpc' = "loop"
    /\ UNCHANGED <<tickers, answers, mainOut>>
    /\ UNCHANGED <<scpc, snapshot, result, locals, calcIn, calcOut>>
    /\ UNCHANGED <<cacheVars, dlVars, brVars>>

\* One iteration of `for ticker in tickers`: analyze_ticker(ticker), for
\* which the provider answers snap, then the error line or the report.
MainTicker(snap) ==
    /\ mpc = "loop"
    /\ LET i      == Len(mainOut) + 1
           ticker == tickers[i]
           data   == analyze_ticker(snap).result
       IN  /\ answers' = Append(answers, snap)
           /\ mainOut' = Append(mainOut, outcome_line(ticker, data))
           /\ mpc' = after_ticker(data, i, Len(tickers))
    /\ UNCHANGED tickers
    /\ UNCHANGED <<scpc, snapshot, result, locals, calcIn, calcOut>>
    /\ UNCHANGED <<cacheVars, dlVars, brVars>>

MainLoop == mpc = "loop" /\ \E snap \in BatchSnapshots : MainTicker(snap)

NextMain ==
    \/ MainUsage
    \/ MainBegin
    \/ MainLoop

\* main is one sequential loop: as long as every provider call comes back
\* (with an answer or an exception), the next step is taken.
SpecMain == InitMain /\ [][NextMain]_vars /\ WF_vars(NextMain)

-----------------------------------------------------------------------------
(* Properties of calculate_score (checked under SpecCalc).                 *)

\* C7: with floor < ceiling and weight >= 0, calculate_score gives weight
\* for val >= ceiling, 0 for val <= floor, (val - floor)/(ceiling - floor) *
\* weight strictly between, and val1 <= val2 implies score(val1) <= score(val2).
C7_ScoreIsClampedLinearAndMonotone ==
    scpc = "calculated" =>
        LET v1 == calcIn.val1
            v2 == calcIn.val2
            f  == calcIn.floor
            c  == calcIn.ceiling
            w  == calcIn.weight
            s1 == calcOut.s1
            s2 == calcOut.s2
        IN  /\ Ge(v1, Z(c)) => s1 = Z(w)
            /\ Le(v1, Z(f)) => s1 = Z(0)
            /\ (Gt(v1, Z(f)) /\ Lt(v1, Z(c))) =>
                  /\ ~IsNaN(s1)
                  /\ s1[1] * (c - f) * v1[2] = (v1[1] - f * v1[2]) * w * s1[2]
            /\ Le(v1, v2) => Le(s1, s2)

\* C7 witness: a value strictly between floor and ceiling has received a
\* score strictly between 0 and the weight, below that of a larger value.
C7_Witness ==
    /\ scpc = "calculated"
    /\ Gt(calcIn.val1, Z(calcIn.floor)) /\ Lt(calcIn.val1, Z(calcIn.ceiling))
    /\ Lt(calcIn.val1, calcIn.val2)
    /\ Gt(calcOut.s1, Z(0)) /\ Lt(calcOut.s1, Z(calcIn.weight))
    /\ Lt(calcOut.s1, calcOut.s2)

-----------------------------------------------------------------------------
(* Properties of analyze_ticker (checked under SpecScore).                 *)

\* analyze_ticker has returned a report (not an error record).
Reported == scpc = "done" /\ "error" \notin DOMAIN result

\* x lies in [lo, hi].
Within(x, lo, hi) == Ge(x, Z(lo)) /\ Le(x, Z(hi))

\* C8 as stated: in every report each factor's awarded score lies in
\* [0, max], with max 35, 25, 20, 20, and the total lies in [0, 100].
C8_ScoresWithinRange ==
    Reported =>
        /\ result.metrics.ROIC.max = 35
        /\ result.metrics.FCF_Margin.max = 25
        /\ result.metrics.Growth.max = 20
        /\ result.metrics.Valuation.max = 20
        /\ \A m \in {"ROIC", "FCF_Margin", "Growth", "Valuation"} :
              Within(result.metrics[m].score, 0, result.metrics[m].max)
        /\ Within(locals.score_roic, 0, 35)
        /\ Within(locals.score_margin, 0, 25)
        /\ Within(locals.score_growth, 0, 20)
        /\ Within(locals.score_val, 0, 20)
        /\ Within(locals.total_score, 0, 100)
        /\ Within(result.score, 0, 100)

\* C9: the recommendation is decided by the full-precision total: BUY from
\* 70 (inclusive), HOLD from 50 (inclusive) to 70, PASS / SELL below 50; the
\* factor scores 35, 12.5, 10 and 0 total 57.5, which is HOLD.
C9_RecommendationBands ==
    Reported =>
        LET t == locals.total_score
        IN  /\ result.recommendation \in {"BUY / ACCUMULATE", "HOLD", "PASS / SELL"}
            /\ Ge(t, Z(70)) => result.recommendation = "BUY / ACCUMULATE"
            /\ (Ge(t, Z(50)) /\ Lt(t, Z(70))) => result.recommendation = "HOLD"
            /\ Lt(t, Z(50)) => result.recommendation = "PASS / SELL"
            /\ ( /\ locals.score_roic = Z(35)
                 /\ locals.score_margin = Q(25, 2)
                 /\ locals.score_growth = Z(10)
                 /\ locals.score_val = Z(0) )
               => t = Q(115, 2) /\ result.recommendation = "HOLD"

\* C9 witness: a report with the factor scores 35, 12.5, 10 and 0.
C9_Witness ==
    /\ Reported
    /\ locals.score_roic = Z(35)
    /\ locals.score_margin = Q(25, 2)
    /\ locals.score_growth = Z(10)
    /\ locals.score_val = Z(0)
    /\ result.recommendation = "HOLD"

\* The growth inputs of the snapshot, read as the claim reads them.
Ocf3yAbsent == "Operating Cash Flow" \notin DOMAIN snapshot.cash_flow

Fcf3y ==
    LET cf    == snapshot.cash_flow
        old(r) == r[Len(r)]
    IN  Sub(old(cf["Operating Cash Flow"]),
            IF "Capital Expenditure" \in DOMAIN cf
            THEN AbsQ(old(cf["Capital Expenditure"])) ELSE Z(0))

Rev3yPositive ==
    /\ "Total Revenue" \in DOMAIN snapshot.income_stmt
    /\ Gt(snapshot.income_stmt["Total Revenue"][Len(snapshot.income_stmt["Total Revenue"])],
          Z(0))

RevCagr ==
    LET r == snapshot.income_stmt["Total Revenue"]
    IN  Mul(Sub(Cbrt(Div(r[1], r[Len(r)])), Z(1)), Z(100))

FcfCagr == Mul(Sub(Cbrt(Div(locals.fcf, Fcf3y)), Z(1)), Z(100))

\* C10 as stated: growth path selection. The primary FCF growth is not
\* computable when the 3-periods-back operating cash flow is absent, or
\* FCF_3y <= 0, or the current FCF <= 0; then, with a positive 3-periods-back
\* revenue, growth is the revenue CAGR under the fallback label. With
\* FCF_3y > 0 and FCF > 0 growth is the FCF CAGR under the primary label.
\* With neither path computable growth is 0 under the primary label.
C10_GrowthPathSelection ==
    Reported =>
        LET g == result.metrics.Growth
            fcfPath == ~Ocf3yAbsent /\ Gt(Fcf3y, Z(0)) /\ Gt(locals.fcf, Z(0))
            notComputable == \/ Ocf3yAbsent
                             \/ Le(Fcf3y, Z(0))
                             \/ Le(locals.fcf, Z(0))
        IN  /\ (notComputable /\ Rev3yPositive) =>
                  g.name = "Rev CAGR (3y) [FCF invalid]" /\ g.value = RevCagr
            /\ fcfPath => g.name = "FCF CAGR (3y)" /\ g.value = FcfCagr
            /\ (~fcfPath /\ ~Rev3yPositive) =>
                  g.name = "FCF CAGR (3y)" /\ g.value = Z(0)

-----------------------------------------------------------------------------
(* Properties of analyze_ticker's result as a whole (under SpecScore).     *)

\* One of the three statements of the snapshot is an empty DataFrame.
StatementMissing ==
    \/ DOMAIN snapshot.income_stmt = {}
    \/ DOMAIN snapshot.balance_sheet = {}
    \/ DOMAIN snapshot.cash_flow = {}

\* The snapshot was fetched whole, and the scoring arithmetic raises on it:
\* info['marketCap'] is no number.
ScoringFails ==
    /\ ~snapshot.raises
    /\ ~StatementMissing
    /\ snapshot.info.marketCap = Some(NotNumber)

\* The result is the error record: an error message and nothing else.
IsErrorRecord == DOMAIN result = {"error"} /\ locals = None

\* The result is a complete report: a total, a recommendation and the four
\* factor results, each with its value, its score and its maximum.
IsCompleteReport ==
    /\ DOMAIN result = {"score", "recommendation", "price", "metrics"}
    /\ result.recommendation \in {"BUY / ACCUMULATE", "HOLD", "PASS / SELL"}
    /\ DOMAIN result.metrics = {"ROIC", "FCF_Margin", "Growth", "Valuation"}
    /\ \A m \in DOMAIN result.metrics :
          {"value", "score", "max"} \subseteq DOMAIN result.metrics[m]

\* C12: analyze_ticker is all-or-nothing per symbol. Its result is either
\* the error record (no score, no recommendation, no metrics) or a complete
\* report; it is the error record whenever the provider raised or one of the
\* three statements is empty, and also when the scoring itself raises.
C12_AllOrNothingPerSymbol ==
    scpc = "done" =>
        /\ IsErrorRecord \/ IsCompleteReport
        /\ (snapshot.raises \/ StatementMissing) => IsErrorRecord
        /\ ScoringFails => IsErrorRecord

\* C12 witness: a snapshot fetched whole on which the scoring raised, and
\* for which analyze_ticker returned the error record.
C12_Witness ==
    /\ scpc = "done"
    /\ ScoringFails
    /\ IsErrorRecord

\* C13 as stated: in every report with a full-precision total in [0, 100]
\* the displayed score (the total rounded to one decimal) and the
\* recommendation agree with the thresholds: displayed >= 70.0 is BUY,
\* 50.0 <= displayed < 70.0 is HOLD, displayed < 50.0 is PASS / SELL.
C13_DisplayedScoreMatchesBand ==
    (Reported /\ Within(locals.total_score, 0, 100)) =>
        /\ Ge(result.score, Z(70)) => result.recommendation = "BUY / ACCUMULATE"
        /\ (Ge(result.score, Z(50)) /\ Lt(result.score, Z(70))) =>
              result.recommendation = "HOLD"
        /\ Lt(result.score, Z(50)) => result.recommendation = "PASS / SELL"

-----------------------------------------------------------------------------
(* Properties of main's batch loop (checked under SpecMain).               *)

\* The provider's answer is one analyze_ticker fails on.
FailsOn(snap) ==
    \/ snap.raises
    \/ DOMAIN snap.income_stmt = {}
    \/ DOMAIN snap.balance_sheet = {}
    \/ DOMAIN snap.cash_flow = {}
    \/ snap.info.marketCap = Some(NotNumber)

\* The outcomes printed so far are those of the first symbols of the
\* command line, one each and in its order: an error line for a symbol that
\* failed, a report otherwise, the same for the same symbol and answer
\* whatever came before it.
OutcomesInOrder ==
    /\ Len(mainOut) = Len(answers)
    /\ Len(mainOut) <= Len(tickers)
    /\ \A k \in 1 .. Len(mainOut) :
          /\ mainOut[k].ticker = tickers[k]
          /\ mainOut[k].kind = IF FailsOn(answers[k]) THEN "error" ELSE "report"
          /\ \A j \in 1 .. Len(mainOut) :
                (tickers[j] = tickers[k] /\ answers[j] = answers[k])
                   => mainOut[j] = mainOut[k]

\* C11: for a batch of N >= 1 symbols main processes every symbol exactly
\* once in the order given and prints exactly one outcome for each (a report
\* or an error line) in that order; a symbol's failure neither stops the
\* symbols after it from being processed and reported nor changes their
\* outcomes; main ends only after the last symbol.
C11_BatchProcessedInOrder ==
    /\ [](OutcomesInOrder)
    /\ [](mpc = "exit0" => Len(tickers) >= 1 /\ Len(mainOut) = Len(tickers))
    /\ [](mpc = "exit1" => Len(tickers) = 0 /\ mainOut = <<>>)
    /\ [][mainOut' # mainOut =>
             /\ Len(mainOut') = Len(mainOut) + 1
             /\ SubSeq(mainOut', 1, Len(mainOut)) = mainOut]_vars
    /\ ((mpc = "start" /\ Len(tickers) >= 1) ~> (mpc = "exit0"))

\* C11 witness: a batch whose first symbol failed has ended, with a report
\* for a later symbol.
C11_Witness ==
    /\ mpc = "exit0"
    /\ Len(tickers) >= 2
    /\ mainOut[1].kind = "error"
    /\ \E k \in 2 .. Len(mainOut) : mainOut[k].kind = "report"

-----------------------------------------------------------------------------
(* Properties of generate_and_send's dispatch (checked under SpecBriefing). *)

\* The subprocess output that was printed as text.
output_of(text) == CHOOSE out \in StdoutChoices : out.text = text

\* The briefing subprocess ended with a return code other than 0.
GenerationFailed ==
    lastEnd # None /\ lastEnd.kind = "briefing" /\ ~lastEnd.ok /\ ~lastEnd.timedout

\* send_to_whatsapp returned False.
DispatchFailed == lastEnd # None /\ lastEnd.kind = "whatsapp" /\ ~lastEnd.ok

\* What holds of the messages dispatched in every state of an invocation.
DispatchRules ==
    /\ Len(sent) <= 1
    /\ sent # <<>> =>
          /\ args.send /\ args.group # ""
          /\ stdout # None
          /\ brpc \in {"sending", "returned"}
          /\ IF args.json
             THEN LET out == output_of(stdout.v)
                  IN  out.parses /\ out.summary # "" /\ sent[1] = out.summary
             ELSE sent[1] = stdout.v
    /\ GenerationFailed => brpc = "exit1" /\ sent = <<>> /\ stdout = None
    /\ brpc = "exit1" => GenerationFailed
    /\ (stdout # None /\ args.json) =>
          LET out == output_of(stdout.v)
          IN  (~out.parses \/ out.summary = "") => sent = <<>>
    /\ DispatchFailed =>
          /\ brpc = "returned"
          /\ stdout # None
          /\ retval = stdout

\* C14: generate_and_send dispatches at most one message per invocation,
\* only after the briefing subprocess ended with return code 0 and only
\* with --send and a group; a failed generation exits with status 1 and
\* dispatches nothing; in JSON mode only a non-empty 'summary' is
\* dispatched, and nothing when the output does not parse or the summary is
\* empty; a dispatch, failed or not, changes neither the briefing printed
\* nor the value returned, which is the briefing.
C14_DispatchAtMostOnceAfterSuccess ==
    /\ [](DispatchRules)
    /\ [][sent' # sent =>
             /\ brpc = "generating" /\ brpc' = "sending"
             /\ lastEnd' = [kind |-> "briefing", ok |-> TRUE, timedout |-> FALSE]
             /\ stdout' # None]_vars
    /\ [][brpc = "sending" =>
             /\ stdout' = stdout
             /\ sent' = sent
             /\ retval' = stdout]_vars

\* C14 witness: in JSON mode the summary was dispatched, the dispatch
\* failed, and the briefing printed was returned.
C14_Witness ==
    /\ DispatchFailed
    /\ args.json
    /\ sent = <<"the summary">>
    /\ stdout = Some("json+summary")
    /\ retval = stdout

=============================================================================
